---- MODULE Spec2Model ----
(***************************************************************************)
(* A model of ahp_graph's DeviceGraph (src/src/ahp_graph/DeviceGraph.py)   *)
(* and of the parts of Device / DevicePort (src/src/ahp_graph/Device.py)   *)
(* it works on: the device registry, the link registry, the set of linked  *)
(* ports, every port's link partner, and the operations add, link,         *)
(* flatten (with the expansion procedures it calls back).                  *)
(*                                                                         *)
(* The methods of DeviceGraph are operators from a graph record to a graph *)
(* record, statement by statement; a raised exception is the field err of  *)
(* the record, and the statements after a raise are skipped.  An expansion *)
(* procedure (Device.expand) is user code: it is modelled as a bounded     *)
(* sequence of add and link calls chosen freely among the devices the      *)
(* procedure constructs and the ports of the device being expanded.        *)
(***************************************************************************)
EXTENDS Integers, Sequences, FiniteSets, TLC

\* None, where the value is a Device or a string
None == "None"

\* an optional value of another type: NoVal is None, Some(v) is v
NoVal == <<>>

Some(v) == <<v>>

Val(o) == o[1]

(***************************************************************************)
(* Bounds of the model.                                                    *)
(***************************************************************************)
\* calls made by the user on the graph in one behaviour
MaxOps == 3
\* add/link calls one expansion procedure makes
MaxCalls == 2

(***************************************************************************)
(* The Device objects of the model and their classes.                      *)
(*   X  an assembly (library None) the user constructs                     *)
(*   D  a library device the user constructs                               *)
(*   P, Q, Y  constructed by X.expand: two library devices, one assembly   *)
(*   R  constructed by Y.expand: a library device                          *)
(*   O, S  library devices the user constructs, to make S a submodule of O *)
(* Q is constructed with the same name as P.                               *)
(***************************************************************************)
Devs == {"X", "D", "P", "Q", "Y", "R", "O", "S"}

TopDevs == {"X", "D"}

Interior(d) ==
    CASE d = "X" -> {"P", "Q", "Y"}
      [] d = "Y" -> {"R"}
      [] OTHER -> {}

library(d) == IF d \in {"X", "Y"} THEN None ELSE "ElementLibrary.Component"

\* the name each Device is constructed with, as its dot-separated components
givenName(d) ==
    CASE d = "X" -> <<"X">>
      [] d = "D" -> <<"D">>
      [] d = "P" -> <<"P">>
      [] d = "Q" -> <<"P">>
      [] d = "Y" -> <<"Y">>
      [] d = "R" -> <<"R">>
      [] d = "O" -> <<"O">>
      [] d = "S" -> <<"S">>

\* portinfo of a device's class: port name -> type tag
portinfo(d) ==
    CASE d = "X" -> [a |-> "T1", b |-> "T1"]
      [] d = "D" -> [a |-> "T1", b |-> "T1", c |-> "T2"]
      [] d = "P" -> [a |-> "T1", c |-> "T2"]
      [] d = "Q" -> [a |-> "T1"]
      [] d = "Y" -> [a |-> "T1"]
      [] d = "R" -> [a |-> "T1"]
      [] d = "O" -> [a |-> "T1", m |-> "T1"]
      [] d = "S" -> [a |-> "T1"]

\* portinfo[name][0], the limit: <<1>> for a single port, NoVal (None) for
\* a multi port
limit(d, n) == IF d = "O" /\ n = "m" THEN NoVal ELSE Some(1)

\* portinfo[name][2], whether the port is required
required(d, n) == ~(d = "D" /\ n \in {"b", "c"})

\* the numbers of the DevicePorts the user takes from a multi port
Numbers == {0, 1}

\* a DevicePort: <<device, name, number>>
PortsOf(d) ==
    {<<d, n, None>> :
        n \in {m \in DOMAIN portinfo(d) : limit(d, m) = Some(1)}}
    \cup {<<d, n, i>> : n \in {m \in DOMAIN portinfo(d) : limit(d, m) # Some(1)},
                        i \in Numbers}

AllPorts == UNION {PortsOf(d) : d \in Devs}

DevOf(p) == p[1]

\* None, where the value is a DevicePort
NoPort == <<None, None, None>>

\* id() of the DevicePort objects: an arbitrary but fixed total order
PortOrder ==
    << <<"P", "a", None>>, <<"X", "a", None>>, <<"D", "a", None>>,
       <<"Y", "a", None>>, <<"D", "b", None>>, <<"X", "b", None>>,
       <<"Q", "a", None>>, <<"D", "c", None>>, <<"R", "a", None>>,
       <<"P", "c", None>>, <<"O", "a", None>>, <<"S", "a", None>>,
       <<"O", "m", 1>>, <<"O", "m", 0>> >>

id(p) == CHOOSE i \in 1..Len(PortOrder) : PortOrder[i] = p

\* the latency tokens the user links with, and the one procedures link with
Latencies == {0, 1}

ProcLatencies == {1}

Ranks == {0, 1}

VARIABLES
    devices,            \* DeviceGraph.devices: name -> Device
    links,              \* DeviceGraph.links: ordered pair of ports -> latency
    ports,              \* DeviceGraph.ports: the set of linked ports
    expanding,          \* DeviceGraph.expanding
    expand_new_links,   \* DeviceGraph.expand_new_links
    expand_new_devices, \* DeviceGraph.expand_new_devices
    debug,              \* DeviceGraph.debug
    plink,              \* DevicePort.link of every port
    name,               \* Device.name of every device
    partition,          \* Device.partition: NoVal or <<rank>>
    subOwner,           \* Device.subOwner
    subs,               \* Device.subs: the list of <<submodule, slotName,
                        \* slotIndex>> (None is <<>>)
    dev_ports,          \* Device.ports: the DevicePorts a device holds
    err,                \* the exception the last call raised, or None
    pc,                 \* "idle", or "expand" inside an expansion procedure
    assemblies,         \* flatten: the devices still to expand in this pass
    fl,                 \* flatten: the arguments of the running call
    ncalls,             \* calls made so far by the running procedure
    nops,               \* calls made so far by the user
    expanded,           \* the devices whose expand() has been called
    pre,                \* the link partners of the ports of the device being
                        \* expanded, as they were when its expansion began
    bl,                 \* the pairs <<port of the device being expanded,
                        \* other port>> its procedure has called link with
    last,               \* the last prune or follow_links call of the user:
                        \* NoVal, or <<[op, rank, prune, n]>>, n the number
                        \* of the call among the user's calls
    ptd                 \* a PortTestDevice: its ports dict (count, objs),
                        \* the DevicePorts made for it, and the call made
                        \* on it last with what it returned or raised

gvars == <<devices, links, ports, expanding, expand_new_links,
           expand_new_devices, debug, plink, name, partition, subOwner,
           subs, dev_ports, err>>

vars == <<devices, links, ports, expanding, expand_new_links,
          expand_new_devices, debug, plink, name, partition, subOwner,
          subs, dev_ports, err, pc, assemblies, fl, ncalls, nops,
          expanded, pre, bl, last, ptd>>

\* the graph and its devices and ports as one record
G ==
    [devices |-> devices, links |-> links, ports |-> ports,
     expanding |-> expanding, expand_new_links |-> expand_new_links,
     expand_new_devices |-> expand_new_devices, debug |-> debug,
     plink |-> plink, name |-> name, partition |-> partition,
     subOwner |-> subOwner, subs |-> subs, dev_ports |-> dev_ports,
     err |-> None]

Commit(g) ==
    /\ devices' = g.devices
    /\ links' = g.links
    /\ ports' = g.ports
    /\ expanding' = g.expanding
    /\ expand_new_links' = g.expand_new_links
    /\ expand_new_devices' = g.expand_new_devices
    /\ debug' = g.debug
    /\ plink' = g.plink
    /\ name' = g.name
    /\ partition' = g.partition
    /\ subOwner' = g.subOwner
    /\ subs' = g.subs
    /\ dev_ports' = g.dev_ports
    /\ err' = g.err

raise(g, e) == [g EXCEPT !.err = e]

\* a PortTestDevice as constructed: Device.ports is empty
NewDevice ==
    [count |-> <<>>, objs |-> <<>>, made |-> <<>>, ret |-> NoVal,
     err |-> None, call |-> NoVal]

\* dict without one key
DictDel(f, k) == [x \in (DOMAIN f) \ {k} |-> f[x]]

\* dict with f[k] = v assigned
DictSet(f, k, v) == [x \in (DOMAIN f) \cup {k} |-> IF x = k THEN v ELSE f[x]]

(***************************************************************************)
(* DeviceGraph.__init__ and the Devices as constructed.                    *)
(***************************************************************************)
Init ==
    /\ devices = <<>>
    /\ links = <<>>
    /\ ports = {}
    /\ expanding = None
    /\ expand_new_links = NoVal
    /\ expand_new_devices = NoVal
    /\ debug = FALSE
    /\ plink = [p \in AllPorts |-> NoPort]
    /\ name = [d \in Devs |-> givenName(d)]
    /\ partition = [d \in Devs |-> NoVal]
    /\ subOwner = [d \in Devs |-> None]
    /\ subs = [d \in Devs |-> <<>>]
    /\ dev_ports = [d \in Devs |-> PortsOf(d)]
    /\ err = None
    /\ pc = "idle"
    /\ assemblies = {}
    /\ fl = NoVal
    /\ ncalls = 0
    /\ nops = 0
    /\ expanded = {}
    /\ pre = <<>>
    /\ bl = {}
    /\ last = NoVal
    /\ ptd = NewDevice

(***************************************************************************)
(* _orderedtuple and check_port_types                                      *)
(***************************************************************************)
_orderedtuple(p0, p1) == IF id(p0) < id(p1) THEN <<p0, p1>> ELSE <<p1, p0>>

\* check_port_types that accepts every pair of ports
check_port_types_any(p0, p1) == TRUE

check_port_types(p0, p1) ==
    portinfo(DevOf(p0))[p0[2]] = portinfo(DevOf(p1))[p1[2]]

(***************************************************************************)
(* DeviceGraph.add                                                         *)
(***************************************************************************)
RECURSIVE TopOwner(_, _)
TopOwner(g, dev) ==
    IF g.subOwner[dev] # None THEN TopOwner(g, g.subOwner[dev]) ELSE dev

\* add that registers a device of an expansion under its own name
add_name_plain(g, device) == g.name[device]

\* the name add registers the device under, and the partition it gets
add_name(g, device) ==
    IF g.expanding # None
    THEN g.name[g.expanding] \o g.name[device]
    ELSE g.name[device]

\* an add that never hands the partition of the assembly on
add_partition_own(g, device) == g.partition[device]

add_partition(g, device) ==
    IF /\ g.expanding # None
       /\ g.partition[g.expanding] # NoVal
       /\ g.partition[device] = NoVal
    THEN g.partition[g.expanding]
    ELSE g.partition[device]

\* the test that opens add: is the name taken?
add_collides(g, device) == g.name[device] \in DOMAIN g.devices

RECURSIVE add(_, _, _)
RECURSIVE add_subs(_, _, _)
add(g, device, sub) ==
    IF g.err # None THEN g
    ELSE IF add_collides(g, device) THEN raise(g, "DuplicateName")
    ELSE
        LET nm == add_name(g, device)
            g1 == [g EXCEPT !.name[device] = nm,
                            !.partition[device] = add_partition(g, device),
                            !.devices = DictSet(@, nm, device),
                            !.expand_new_devices =
                                IF @ # NoVal THEN Some(Val(@) \cup {device})
                                ELSE @]
            g2 == IF g1.subOwner[device] # None /\ ~sub
                  THEN add(g1, TopOwner(g1, device), FALSE)
                  ELSE g1
        IN  add_subs(g2, g2.subs[device], 1)

add_subs(g, list, i) ==
    IF g.err # None \/ i > Len(list) THEN g
    ELSE add_subs(add(g, list[i][1], TRUE), list, i + 1)

(***************************************************************************)
(* DeviceGraph._link_other_port and DeviceGraph.link                       *)
(***************************************************************************)
\* the latency the spliced link is stored with: the one popped from the
\* link of the assembly's port
\* a spliced link stored with the default latency instead
spliced_latency_default(g, p0, p2) == 0

spliced_latency(g, p0, p2) == g.links[_orderedtuple(p0, p2)]

\* a splice that leaves the port of the assembly in the port registry
splice_ports_keep(ps, p0, p1) == ps \cup {p1}

\* self.ports.remove(p0); self.ports.add(p1)
splice_ports(ps, p0, p1) == (ps \ {p0}) \cup {p1}

\* a splice that registers the device of p1 although p0 has no partner
_link_other_port_none_add(g, p0, p1) ==
    IF g.name[DevOf(p1)] \notin DOMAIN g.devices
    THEN add(g, DevOf(p1), FALSE)
    ELSE g

\* _link_other_port when p0.link is None: the if has no else branch
_link_other_port_none(g, p0, p1) == g

_link_other_port(g, p0, p1) ==
    IF g.plink[p0] = NoPort THEN _link_other_port_none(g, p0, p1)
    ELSE
        LET p2 == g.plink[p0]
            pl1 == [g.plink EXCEPT ![p0] = NoPort]
            pl2 == [pl1 EXCEPT ![p2] = p1]
            pl3 == [pl2 EXCEPT ![p1] = p2]
            g1 == [g EXCEPT !.plink = pl3]
            g2 == [g1 EXCEPT !.ports = splice_ports(@, p0, p1)]
            latency == spliced_latency(g, p0, p2)
            g3 == [g2 EXCEPT !.links = DictDel(@, _orderedtuple(p0, p2))]
            g4 == IF g3.name[DevOf(p1)] \notin DOMAIN g3.devices
                  THEN add(g3, DevOf(p1), FALSE)
                  ELSE g3
            g5 == [g4 EXCEPT
                     !.links = DictSet(@, _orderedtuple(p1, p2), latency),
                     !.expand_new_links =
                         IF @ # NoVal THEN Some(Append(Val(@), <<p1, p2>>))
                         ELSE @]
        IN  IF ~check_port_types(p1, p2) THEN raise(g, "PortTypeMismatch")
            ELSE IF p0 \notin g1.ports THEN raise(g1, "KeyError")
            ELSE IF _orderedtuple(p0, p2) \notin DOMAIN g2.links
                 THEN raise(g2, "KeyError")
            ELSE IF g4.err # None THEN g4
            ELSE g5

\* the test of link for a port that is linked already
already_linked(g, p0, p1) == p0 \in g.ports \/ p1 \in g.ports

link(g, p0, p1, latency) ==
    IF g.expanding # None /\ DevOf(p0) = g.expanding
    THEN _link_other_port(g, p0, p1)
    ELSE IF g.expanding # None /\ DevOf(p1) = g.expanding
    THEN _link_other_port(g, p1, p0)
    ELSE IF already_linked(g, p0, p1) THEN raise(g, "PortAlreadyLinked")
    ELSE IF ~check_port_types(p0, p1) THEN raise(g, "PortTypeMismatch")
    ELSE
        LET g1 == IF g.name[DevOf(p0)] \notin DOMAIN g.devices
                  THEN add(g, DevOf(p0), FALSE)
                  ELSE g
            g2 == IF g1.err = None /\ g1.name[DevOf(p1)] \notin DOMAIN g1.devices
                  THEN add(g1, DevOf(p1), FALSE)
                  ELSE g1
            key == _orderedtuple(p0, p1)
            pl == IF g2.plink[p0] = NoPort /\ g2.plink[p1] = NoPort
                  THEN [[g2.plink EXCEPT ![p0] = p1] EXCEPT ![p1] = p0]
                  ELSE g2.plink
        IN  IF g2.err # None THEN g2
            ELSE [g2 EXCEPT
                    !.ports = @ \cup {p0, p1},
                    !.plink = pl,
                    !.links = DictSet(@, key, latency),
                    !.expand_new_links =
                        IF @ # NoVal THEN Some(Append(Val(@), key)) ELSE @]

(***************************************************************************)
(* Device.dealloc, Device.set_partition, DeviceGraph.check_partition       *)
(***************************************************************************)
\* a dealloc that leaves the owner in place
dealloc_ports(g, device) ==
    [g EXCEPT !.dev_ports[device] = {},
              !.subs[device] = <<>>]

dealloc(g, device) ==
    [g EXCEPT !.dev_ports[device] = {},
              !.subs[device] = <<>>,
              !.subOwner[device] = None]

set_partition(g, device, rank) ==
    [g EXCEPT !.partition[device] = Some(rank)]

Values(f) == {f[x] : x \in DOMAIN f}

\* a check that passes every graph
check_partition_pass(g) == g

check_partition(g) ==
    IF \E d \in Values(g.devices) : g.partition[d] = NoVal
    THEN raise(g, "MissingPartition")
    ELSE g

(***************************************************************************)
(* DeviceGraph.verify_links                                                *)
(***************************************************************************)
\* the names of the ports of the device at the first end of a link
d2ports_first(g, device) ==
    {k[1][2] : k \in {j \in DOMAIN g.links : DevOf(j[1]) = device}}

\* d2ports[device]: the names of the ports of the device at a link
d2ports(g, device) ==
    {k[1][2] : k \in {j \in DOMAIN g.links : DevOf(j[1]) = device}}
    \cup {k[2][2] : k \in {j \in DOMAIN g.links : DevOf(j[2]) = device}}

verify_links(g) ==
    IF \E device \in Values(g.devices) :
           \E n \in DOMAIN portinfo(device) :
               required(device, n) /\ n \notin d2ports(g, device)
    THEN raise(g, "MissingRequiredPort")
    ELSE g

(***************************************************************************)
(* Device.add_submodule                                                    *)
(***************************************************************************)
add_submodule(g, owner, device, slotName) ==
    IF library(owner) = None \/ library(device) = None
    THEN raise(g, "RuntimeError")
    ELSE [g EXCEPT !.subOwner[device] = owner,
                   !.subs[owner] = Append(@, <<device, slotName, None>>)]

(***************************************************************************)
(* DeviceGraph.flatten and DeviceGraph._expand_device.  flatten calls      *)
(* device.expand(self) back; between the call and its return the graph     *)
(* is in pc = "expand" and the procedure's own calls are actions.          *)
(***************************************************************************)
\* the arguments the user calls flatten with: levels, or one filter
FlattenArgs ==
    [levels : {NoVal, Some(0), Some(1)}, name : {NoVal}, rank : {NoVal},
     expand : {NoVal}]
    \cup [levels : {NoVal}, name : {Some(<<"X">>)}, rank : {NoVal},
          expand : {NoVal}]
    \cup [levels : {NoVal}, name : {NoVal}, rank : {Some(0)},
          expand : {NoVal}]
    \cup [levels : {NoVal, Some(0), Some(1)}, name : {NoVal}, rank : {NoVal},
          expand : {Some({"X", "D"})}]
    \cup [levels : {NoVal}, name : {Some(<<"Y">>)}, rank : {NoVal},
          expand : {NoVal}]
    \cup [levels : {NoVal}, name : {Some(<<"X">>)}, rank : {Some(0)},
          expand : {NoVal}]

\* splitName == dev.name.split(".")[0: len(splitName)]
name_matches(splitName, devname) ==
    /\ Len(splitName) <= Len(devname)
    /\ SubSeq(devname, 1, Len(splitName)) = splitName

\* a loop that looks at every device there is, registered or not
flatten_devs_all(g, f) == Devs

\* the devices the loop of flatten looks at
flatten_devs(g, f) ==
    IF f.expand # NoVal THEN Val(f.expand) ELSE Values(g.devices)

\* the assemblies one pass of flatten selects
flatten_select(g, f) ==
    {dev \in flatten_devs(g, f) :
        /\ library(dev) = None
        /\ f.name # NoVal => name_matches(Val(f.name), g.name[dev])
        /\ f.rank # NoVal => f.rank = g.partition[dev]}

\* rank == dev.partition[0] on a device without a partition
flatten_type_error(g, f) ==
    /\ f.rank # NoVal
    /\ \E dev \in flatten_devs(g, f) :
           library(dev) = None /\ g.partition[dev] = NoVal

\* a recursive call that takes levels=None for a single level
next_levels_single(levels) ==
    IF levels = NoVal THEN Some(0) ELSE Some(Val(levels) - 1)

\* a recursive call that passes levels on as it is
next_levels_same(levels) == levels

\* the levels argument of the recursive call
next_levels(levels) ==
    IF levels = NoVal THEN NoVal ELSE Some(Val(levels) - 1)

Return(g) ==
    /\ Commit(g)
    /\ pc' = "idle"
    /\ assemblies' = {}
    /\ fl' = NoVal
    /\ ncalls' = 0
    /\ expanded' = expanded
    /\ pre' = <<>>
    /\ bl' = {}
    /\ last' = last
    /\ ptd' = ptd

\* _expand_device up to the call of device.expand
Begin(g, f, rest, device) ==
    /\ device \notin expanded
    /\ Commit([g EXCEPT !.expanding = device])
    /\ pc' = "expand"
    /\ assemblies' = rest
    /\ fl' = Some(f)
    /\ ncalls' = 0
    /\ expanded' = expanded \cup {device}
    /\ pre' = [p \in PortsOf(device) |-> g.plink[p]]
    /\ bl' = {}
    /\ last' = last
    /\ ptd' = ptd

\* flatten from its first line to the first call of an expansion procedure
flatten(g, f) ==
    IF f.levels = Some(0) THEN Return(g)
    ELSE IF flatten_type_error(g, f) THEN Return(raise(g, "TypeError"))
    ELSE IF flatten_select(g, f) = {} THEN Return(g)
    ELSE \E device \in flatten_select(g, f) :
            Begin(g, f, flatten_select(g, f) \ {device}, device)

\* the check of _expand_device looking at the first port of each link only
unexpanded_link_p0(g, device) ==
    /\ g.debug
    /\ \E key \in DOMAIN g.links : g.name[DevOf(key[1])] = g.name[device]

\* the check of _expand_device under self.debug
unexpanded_link(g, device) ==
    /\ g.debug
    /\ \E key \in DOMAIN g.links :
           \/ g.name[DevOf(key[1])] = g.name[device]
           \/ g.name[DevOf(key[2])] = g.name[device]

\* an _expand_device that leaves the device registered
_expand_device_end_keep(g, device) == [g EXCEPT !.expanding = None]

\* _expand_device after device.expand has returned
_expand_device_end(g, device) ==
    LET g0 == [g EXCEPT !.expanding = None]
        g1 == dealloc([g0 EXCEPT !.devices = DictDel(@, g0.name[device])],
                      device)
    IN  IF g0.name[device] \notin DOMAIN g0.devices THEN raise(g0, "KeyError")
        ELSE IF unexpanded_link(g1, device) THEN raise(g1, "UnexpandedPort")
        ELSE g1

(***************************************************************************)
(* The calls of the user.                                                  *)
(***************************************************************************)
UserStep ==
    /\ pc = "idle"
    /\ nops < MaxOps
    /\ nops' = nops + 1

Idle == UNCHANGED <<pc, assemblies, fl, ncalls, expanded, pre, bl, last, ptd>>

Add(d) ==
    /\ UserStep
    /\ \E g \in {add(G, d, FALSE)} : Commit(g)
    /\ Idle

Link(p0, p1, latency) ==
    /\ UserStep
    /\ \E g \in {link(G, p0, p1, latency)} : Commit(g)
    /\ Idle

SetPartition(d, rank) ==
    /\ UserStep
    /\ \E g \in {set_partition(G, d, rank)} : Commit(g)
    /\ Idle

SetDebug ==
    /\ UserStep
    /\ ~debug
    /\ Commit([G EXCEPT !.debug = TRUE])
    /\ Idle

\* expand() constructs its devices once: the user does not flatten a graph
\* in which an assembly whose expand() has run is selected again
Flatten(f) ==
    /\ UserStep
    /\ flatten_select(G, f) \cap expanded = {}
    /\ \E g \in {G} : flatten(g, f)

(***************************************************************************)
(* The calls of the expansion procedure of the device being expanded, and  *)
(* its return.  An exception raised by a call leaves the procedure and     *)
(* flatten.                                                                *)
(***************************************************************************)
ProcPorts(d) == PortsOf(d) \cup UNION {PortsOf(i) : i \in Interior(d)}

ProcCall(g, boundary) ==
    /\ Commit(g)
    /\ nops' = nops
    /\ expanded' = expanded
    /\ last' = last
    /\ ptd' = ptd
    /\ IF g.err # None
       THEN /\ pc' = "idle" /\ assemblies' = {} /\ fl' = NoVal
            /\ ncalls' = 0 /\ pre' = <<>> /\ bl' = {}
       ELSE /\ pc' = pc /\ assemblies' = assemblies /\ fl' = fl
            /\ ncalls' = ncalls + 1 /\ pre' = pre
            /\ bl' = bl \cup boundary

ProcAdd(d) ==
    /\ pc = "expand"
    /\ ncalls < MaxCalls
    /\ d \in Interior(expanding)
    /\ \E g \in {add(G, d, FALSE)} : ProcCall(g, {})

ProcLink(p0, p1, latency) ==
    /\ pc = "expand"
    /\ ncalls < MaxCalls
    /\ p0 \in ProcPorts(expanding)
    /\ p1 \in ProcPorts(expanding)
    /\ \E g \in {link(G, p0, p1, latency)} :
           ProcCall(g, IF DevOf(p0) = expanding THEN {<<p0, p1>>}
                       ELSE IF DevOf(p1) = expanding THEN {<<p1, p0>>}
                       ELSE {})

ProcReturn ==
    /\ pc = "expand"
    /\ nops' = nops
    /\ \E g \in {_expand_device_end(G, expanding)} :
           IF g.err # None THEN Return(g)
           ELSE IF assemblies # {}
           THEN \E device \in assemblies :
                   Begin(g, Val(fl), assemblies \ {device}, device)
           ELSE IF Val(fl).expand = NoVal
           THEN flatten(g, [Val(fl) EXCEPT !.levels = next_levels(@)])
           ELSE Return(g)

TopPorts == UNION {PortsOf(d) : d \in TopDevs}

(***************************************************************************)
(* DeviceGraph.prune                                                       *)
(***************************************************************************)
\* one statement after another: v is computed once and F continues with it
Bind(v, F(_)) == CHOOSE r \in {F(x) : x \in {v}} : TRUE

\* d0.partition[0] == rank or d1.partition[0] == rank raises TypeError
TouchError(g, key, rank) ==
    \/ g.partition[DevOf(key[1])] = NoVal
    \/ /\ g.partition[DevOf(key[1])] # Some(rank)
       /\ g.partition[DevOf(key[2])] = NoVal

\* a test of the first endpoint alone
Touches_first(g, key, rank) == g.partition[DevOf(key[1])] = Some(rank)

\* d0.partition[0] == rank or d1.partition[0] == rank
Touches(g, key, rank) ==
    \/ g.partition[DevOf(key[1])] = Some(rank)
    \/ g.partition[DevOf(key[2])] = Some(rank)

\* a device and the owners above it, walking subOwner
RECURSIVE WithOwners(_, _)
WithOwners(g, dev) ==
    IF g.subOwner[dev] # None
    THEN {dev} \cup WithOwners(g, g.subOwner[dev])
    ELSE {dev}

\* devices_to_keep.  The loops over d0.subs and d1.subs add the tuples
\* (device, slotName, slotIndex) of the lists, which are no devices.
devices_to_keep(g, rank) ==
    UNION {WithOwners(g, DevOf(key[1])) \cup WithOwners(g, DevOf(key[2])) :
              key \in {k \in DOMAIN g.links : Touches(g, k, rank)}}

\* del self.links[(p0, p1)]; p0.link = None; p1.link = None;
\* self.ports.remove(p0); self.ports.remove(p1)
remove_link(g, key) ==
    IF key \notin DOMAIN g.links THEN raise(g, "KeyError")
    ELSE
        LET g1 == [g EXCEPT !.links = DictDel(@, key),
                            !.plink = [[@ EXCEPT ![key[1]] = NoPort]
                                          EXCEPT ![key[2]] = NoPort]]
            g2 == [g1 EXCEPT !.ports = @ \ {key[1]}]
        IN  IF key[1] \notin g1.ports THEN raise(g1, "KeyError")
            ELSE IF key[2] \notin g2.ports THEN raise(g2, "KeyError")
            ELSE [g2 EXCEPT !.ports = @ \ {key[2]}]

\* the links of a set in the order the loop visits them (the order of the
\* dict; it decides only what an exception leaves behind)
FirstLink(keys) ==
    CHOOSE k \in keys :
        \A j \in keys :
            \/ id(k[1]) < id(j[1])
            \/ id(k[1]) = id(j[1]) /\ id(k[2]) <= id(j[2])

RECURSIVE remove_links(_, _)
remove_links(g, keys) ==
    IF g.err # None \/ keys = {} THEN g
    ELSE Bind(remove_link(g, FirstLink(keys)),
              LAMBDA g1 : remove_links(g1, keys \ {FirstLink(keys)}))

\* del self.devices[device.name]; device.dealloc() for the devices of a set
DevOrder == <<"X", "D", "P", "Q", "Y", "R", "O", "S">>

ToSeq(devs) == SelectSeq(DevOrder, LAMBDA d : d \in devs)

RECURSIVE remove_devices(_, _, _)
remove_devices(g, list, i) ==
    IF g.err # None \/ i > Len(list) THEN g
    ELSE IF g.name[list[i]] \notin DOMAIN g.devices THEN raise(g, "KeyError")
    ELSE Bind(dealloc([g EXCEPT !.devices = DictDel(@, g.name[list[i]])],
                      list[i]),
              LAMBDA g1 : remove_devices(g1, list, i + 1))

\* a prune that checks the partitions and removes nothing
prune_nothing(g, rank) == check_partition(g)

prune(g, rank) ==
    LET links_to_remove == {k \in DOMAIN g.links : ~Touches(g, k, rank)}
    IN  Bind(check_partition(g), LAMBDA g0 :
        IF g0.err # None THEN g0
        ELSE IF \E k \in DOMAIN g.links : TouchError(g, k, rank)
        THEN raise(g, "TypeError")
        ELSE Bind(remove_links(g0, links_to_remove), LAMBDA g1 :
             IF g1.err # None THEN g1
             ELSE remove_devices(
                      g1,
                      ToSeq(Values(g1.devices) \ devices_to_keep(g, rank)),
                      1)))

(***************************************************************************)
(* Expansion procedures as programs.  Where a whole call of flatten or     *)
(* follow_links is one step, the procedure of an assembly is a script: the *)
(* sequence of calls expand(graph) makes.  A second call of expand of the  *)
(* same assembly runs the script on the same Device objects.               *)
(***************************************************************************)
Call(op, d, p0, p1, arg) ==
    [op |-> op, d |-> d, p0 |-> p0, p1 |-> p1, arg |-> arg]

CallAdd(d) == Call("add", d, NoPort, NoPort, 0)

CallLink(d0, n0, d1, n1) ==
    Call("link", None, <<d0, n0, None>>, <<d1, n1, None>>, 1)

CallSetPartition(d, rank) == Call("set_partition", d, NoPort, NoPort, rank)

\* the calls the procedure of an assembly chooses from
CallsOf(x) ==
    CASE x = "X" ->
            {CallAdd("P"), CallAdd("Y"),
             CallLink("P", "a", "X", "a"), CallLink("Q", "a", "X", "b"),
             CallLink("Y", "a", "X", "a"), CallLink("P", "a", "Y", "a")}
            \cup {CallSetPartition("P", r) : r \in Ranks}
      [] x = "Y" -> {CallAdd("R"), CallLink("R", "a", "Y", "a")}
      [] OTHER -> {}

SeqsUpTo(S, n) == UNION {[1..k -> S] : k \in 0..n}

\* a script for each assembly
Programs ==
    [X : SeqsUpTo(CallsOf("X"), MaxCalls), Y : SeqsUpTo(CallsOf("Y"), MaxCalls)]

apply_call(g, c) ==
    CASE c.op = "add" -> add(g, c.d, FALSE)
      [] c.op = "link" -> link(g, c.p0, c.p1, c.arg)
      [] c.op = "set_partition" -> set_partition(g, c.d, c.arg)

RECURSIVE run_script(_, _, _)
run_script(g, calls, i) ==
    IF g.err # None \/ i > Len(calls) THEN g
    ELSE Bind(apply_call(g, calls[i]),
              LAMBDA g1 : run_script(g1, calls, i + 1))

\* DeviceGraph._expand_device, the procedure of device being scr[device]
_expand_device(g, device, scr) ==
    Bind(run_script([g EXCEPT !.expanding = device], scr[device], 1),
         LAMBDA g1 :
             IF g1.err # None THEN g1 ELSE _expand_device_end(g1, device))

(***************************************************************************)
(* DeviceGraph.follow_links, and DeviceGraph.flatten as one step           *)
(***************************************************************************)
\* a loop that has not ended after as many passes as there are devices
\* never ends: every pass that returns removes an assembly for good or
\* leaves the graph as the pass before found it
Passes == Cardinality(Devs)

\* the assemblies at the first endpoint of a link alone
devices_to_expand_first(g, rank) ==
    {d \in Devs :
        /\ library(d) = None
        /\ \E k \in DOMAIN g.links : Touches(g, k, rank) /\ d = DevOf(k[1])}

\* the assemblies one pass of follow_links expands
devices_to_expand(g, rank) ==
    {d \in Devs :
        /\ library(d) = None
        /\ \E k \in DOMAIN g.links :
               Touches(g, k, rank) /\ d \in {DevOf(k[1]), DevOf(k[2])}}

\* a loop body that leaves a new link that is off the rank where it is
prune_new_link_keep(g, key, rank) ==
    IF g.partition[DevOf(key[1])] = NoVal \/ g.partition[DevOf(key[2])] = NoVal
    THEN raise(g, "TypeError")
    ELSE IF Touches(g, key, rank)
    THEN [g EXCEPT !.expand_new_devices =
             Some(Val(@) \ {DevOf(key[1]), DevOf(key[2])})]
    ELSE g

\* r0 = d0.partition[0]; r1 = d1.partition[0] and the branch taken for one
\* entry of expand_new_links
prune_new_link(g, key, rank) ==
    LET d0 == DevOf(key[1])
        d1 == DevOf(key[2])
    IN  IF g.partition[d0] = NoVal \/ g.partition[d1] = NoVal
        THEN raise(g, "TypeError")
        ELSE IF g.partition[d0] = Some(rank) \/ g.partition[d1] = Some(rank)
        THEN [g EXCEPT !.expand_new_devices =
                 Some(Val(@) \ {d0, d1, g.subOwner[d0], g.subOwner[d1]})]
        ELSE remove_link(g, key)

RECURSIVE prune_new_links(_, _, _)
prune_new_links(g, rank, i) ==
    IF g.err # None \/ i > Len(Val(g.expand_new_links)) THEN g
    ELSE Bind(prune_new_link(g, Val(g.expand_new_links)[i], rank),
              LAMBDA g1 : prune_new_links(g1, rank, i + 1))

\* the body of the loop over devices_to_expand for one device
follow_expand(g, device, rank, prune_, scr) ==
    LET g1 == IF prune_
              THEN [g EXCEPT !.expand_new_links = Some(<<>>),
                             !.expand_new_devices = Some({})]
              ELSE g
    IN  Bind(_expand_device(g1, device, scr), LAMBDA g2 :
        IF g2.err # None THEN g2
        ELSE Bind(IF prune_ THEN prune_new_links(g2, rank, 1) ELSE g2,
                  LAMBDA g3 :
             IF g3.err # None THEN g3
             ELSE Bind(IF prune_
                       THEN remove_devices(
                                g3, ToSeq(Val(g3.expand_new_devices)), 1)
                       ELSE g3,
                       LAMBDA g4 :
                  IF g4.err # None THEN g4
                  ELSE [g4 EXCEPT !.expand_new_links = NoVal,
                                  !.expand_new_devices = NoVal,
                                  !.expanding = None])))

RECURSIVE follow_expand_all(_, _, _, _, _, _)
follow_expand_all(g, list, i, rank, prune_, scr) ==
    IF g.err # None \/ i > Len(list) THEN g
    ELSE Bind(follow_expand(g, list[i], rank, prune_, scr),
              LAMBDA g1 :
                  follow_expand_all(g1, list, i + 1, rank, prune_, scr))

\* the while loop of follow_links
RECURSIVE follow_loop(_, _, _, _, _)
follow_loop(g, rank, prune_, scr, passes) ==
    IF g.err # None THEN g
    ELSE IF \E k \in DOMAIN g.links : TouchError(g, k, rank)
    THEN raise(g, "TypeError")
    ELSE IF devices_to_expand(g, rank) = {} THEN g
    ELSE IF passes = 0 THEN raise(g, "NoReturn")
    ELSE Bind(follow_expand_all(g, ToSeq(devices_to_expand(g, rank)), 1,
                                rank, prune_, scr),
              LAMBDA g1 : follow_loop(g1, rank, prune_, scr, passes - 1))

follow_links(g, rank, prune_, scr) ==
    Bind(check_partition(g), LAMBDA g0 :
         IF g0.err # None THEN g0
         ELSE Bind(IF prune_ THEN prune(g0, rank) ELSE g0,
                   LAMBDA g1 : follow_loop(g1, rank, prune_, scr, Passes)))

\* the loop of flatten over the assemblies it selected
RECURSIVE expand_all(_, _, _, _)
expand_all(g, list, i, scr) ==
    IF g.err # None \/ i > Len(list) THEN g
    ELSE Bind(_expand_device(g, list[i], scr),
              LAMBDA g1 : expand_all(g1, list, i + 1, scr))

\* flatten from its first line to its return
RECURSIVE flatten_run(_, _, _, _)
flatten_run(g, f, scr, passes) ==
    IF g.err # None \/ f.levels = Some(0) THEN g
    ELSE IF flatten_type_error(g, f) THEN raise(g, "TypeError")
    ELSE IF flatten_select(g, f) = {} THEN g
    ELSE IF passes = 0 THEN raise(g, "NoReturn")
    ELSE Bind(expand_all(g, ToSeq(flatten_select(g, f)), 1, scr),
              LAMBDA g1 :
                  IF g1.err # None \/ f.expand # NoVal THEN g1
                  ELSE flatten_run(g1, [f EXCEPT !.levels = next_levels(@)],
                                   scr, passes - 1))

\* flatten()
FlattenAll == [levels |-> NoVal, name |-> NoVal, rank |-> NoVal,
               expand |-> NoVal]

(***************************************************************************)
(* Devices with submodules: the user makes S a submodule of O, or D a      *)
(* submodule of S, and adds and links O, S and D.                          *)
(***************************************************************************)
SubDevs == {"O", "S", "D"}

SubPairs == {<<"O", "S">>, <<"S", "D">>}

SubPorts == {<<"O", "a", None>>, <<"S", "a", None>>, <<"D", "a", None>>,
             <<"D", "b", None>>}

AddSubmodule(owner, device) ==
    /\ UserStep
    /\ \E g \in {add_submodule(G, owner, device, "slot")} : Commit(g)
    /\ Idle

NextSub ==
    \/ \E pair \in SubPairs : AddSubmodule(pair[1], pair[2])
    \/ \E d \in SubDevs : Add(d)
    \/ \E p0, p1 \in SubPorts : p0 # p1 /\ Link(p0, p1, 0)

SpecSub == Init /\ [][NextSub]_vars

(***************************************************************************)
(* Library devices: O, S and D are constructed and given their ranks; the  *)
(* user makes submodules, adds and links the devices and calls             *)
(* verify_links, prune or follow_links.                                    *)
(***************************************************************************)
LibPorts == {<<"O", "a", None>>, <<"O", "m", 0>>, <<"O", "m", 1>>,
             <<"S", "a", None>>, <<"D", "a", None>>}

\* a graph without assemblies runs no procedure
NoProgram == [X |-> <<>>, Y |-> <<>>]

InitLib ==
    /\ devices = <<>>
    /\ links = <<>>
    /\ ports = {}
    /\ expanding = None
    /\ expand_new_links = NoVal
    /\ expand_new_devices = NoVal
    /\ debug = FALSE
    /\ plink = [p \in AllPorts |-> NoPort]
    /\ name = [d \in Devs |-> givenName(d)]
    /\ \E po, ps, pd \in {NoVal} \cup {Some(r) : r \in Ranks} :
           partition = [d \in Devs |-> IF d = "O" THEN po
                                       ELSE IF d = "S" THEN ps
                                       ELSE IF d = "D" THEN pd ELSE NoVal]
    /\ subOwner = [d \in Devs |-> None]
    /\ subs = [d \in Devs |-> <<>>]
    /\ dev_ports = [d \in Devs |-> PortsOf(d)]
    /\ err = None
    /\ pc = "idle"
    /\ assemblies = {}
    /\ fl = NoVal
    /\ ncalls = 0
    /\ nops = 0
    /\ expanded = {}
    /\ pre = <<>>
    /\ bl = {}
    /\ last = NoVal
    /\ ptd = NewDevice

\* a call of the user that is one step, recorded in last together with
\* the links, the devices and the owners as they were when it was made
LibOp(g, op, rank, prune_) ==
    /\ Commit(g)
    /\ UNCHANGED <<pc, assemblies, fl, ncalls, expanded, pre, bl, ptd>>
    /\ last' = Some([op |-> op, rank |-> rank, prune |-> prune_,
                     n |-> nops + 1, links |-> DOMAIN links,
                     devices |-> Values(devices), subOwner |-> subOwner])

VerifyLinks ==
    /\ UserStep
    /\ \E g \in {verify_links(G)} : LibOp(g, "verify_links", 0, FALSE)

CheckPartition ==
    /\ UserStep
    /\ \E g \in {check_partition(G)} : LibOp(g, "check_partition", 0, FALSE)

LibPrune(rank) ==
    /\ UserStep
    /\ \E g \in {prune(G, rank)} : LibOp(g, "prune", rank, FALSE)

LibFollowLinks(rank, prune_) ==
    /\ UserStep
    /\ \E g \in {follow_links(G, rank, prune_, NoProgram)} :
          LibOp(g, "follow_links", rank, prune_)

NextLib ==
    \/ \E pair \in SubPairs : AddSubmodule(pair[1], pair[2])
    \/ \E d \in SubDevs : Add(d)
    \/ \E p0, p1 \in LibPorts, l \in Latencies : p0 # p1 /\ Link(p0, p1, l)
    \/ VerifyLinks
    \/ CheckPartition
    \/ \E rank \in Ranks : LibPrune(rank)
    \/ \E rank \in Ranks, prune_ \in BOOLEAN : LibFollowLinks(rank, prune_)

SpecLib == InitLib /\ [][NextLib]_vars

(***************************************************************************)
(* Device.port on a PortTestDevice.  Device.ports holds two kinds of       *)
(* entry: ports[name], the counter of a multi port, here count, and        *)
(* ports[(name, number)], the DevicePort of that instance, here objs; a    *)
(* DevicePort is its index in made, the DevicePorts constructed so far.    *)
(* The number of a port is NoVal for None and <<i>> for i.                 *)
(***************************************************************************)
MaxPortCalls == 4

MaxNumber == 2

\* PortInfo.add: info[0], the limit of each port name (NoVal is None)
PtdLimit ==
    ("default" :> Some(1)) @@ ("limit" :> Some(2)) @@ ("no_limit" :> NoVal)

PortNames == DOMAIN PtdLimit \cup {"missing"}

PortNumbers == {NoVal} \cup {Some(i) : i \in 0..MaxNumber}

\* dict.get(k, dflt)
Get(f, k, dflt) == IF k \in DOMAIN f THEN f[k] ELSE dflt

port_counter_plain(t, port_, number) == number + 1

\* self.ports[port] = max(number+1, self.ports.get(port, 1))
port_counter(t, port_, number) ==
    LET c == Get(t.count, port_, 1)
    IN  IF number + 1 > c THEN number + 1 ELSE c

port_object_new(t, port_, number) ==
    LET made1 == Append(t.made, [name |-> port_, number |-> number,
                                 link |-> FALSE])
    IN  [t EXCEPT !.made = made1,
                  !.objs = DictSet(t.objs, <<port_, number>>, Len(made1)),
                  !.ret = Some(Len(made1))]

\* the DevicePort under key (port, number), constructed if it is not there
port_object(t, port_, number) ==
    LET key == <<port_, number>>
    IN  IF key \in DOMAIN t.objs
        THEN [t EXCEPT !.ret = Some(t.objs[key])]
        ELSE LET made1 == Append(t.made, [name |-> port_, number |-> number,
                                          link |-> FALSE])
             IN  [t EXCEPT !.made = made1,
                           !.objs = DictSet(t.objs, key, Len(made1)),
                           !.ret = Some(Len(made1))]

\* Device.port(port, number); a number given for a single port only prints
\* a warning
port(t, port_, number) ==
    IF port_ \notin DOMAIN PtdLimit
    THEN [t EXCEPT !.err = "UnknownPort"]
    ELSE IF PtdLimit[port_] = Some(1)
    THEN port_object(t, port_, number)
    ELSE LET num == IF number = NoVal THEN Get(t.count, port_, 0)
                    ELSE Val(number)
         IN  IF PtdLimit[port_] # NoVal /\ num >= Val(PtdLimit[port_])
             THEN [t EXCEPT !.err = "CardinalityExceeded"]
             ELSE port_object(
                      [t EXCEPT !.count = DictSet(t.count, port_,
                                              port_counter(t, port_, num))],
                      port_, Some(num))

\* Device.dealloc: self.ports.clear()
clear_ports(t) == [t EXCEPT !.count = <<>>, !.objs = <<>>]

PortCall(t, op, port_, number) ==
    /\ nops < MaxPortCalls
    /\ nops' = nops + 1
    /\ ptd' = [t EXCEPT !.call = Some([op |-> op, port |-> port_,
                                       number |-> number])]
    /\ UNCHANGED <<devices, links, ports, expanding, expand_new_links,
                   expand_new_devices, debug, plink, name, partition,
                   subOwner, subs, dev_ports, err, pc, assemblies, fl,
                   ncalls, expanded, pre, bl, last>>

Port(port_, number) ==
    PortCall(port([ptd EXCEPT !.err = None, !.ret = NoVal], port_, number),
             "port", port_, number)

Dealloc ==
    PortCall(clear_ports([ptd EXCEPT !.err = None, !.ret = NoVal]),
             "dealloc", None, NoVal)

\* DeviceGraph.link sets the link of a DevicePort the user holds
LinkPort(i) ==
    /\ ~ptd.made[i].link
    /\ PortCall([ptd EXCEPT !.made[i].link = TRUE, !.err = None,
                            !.ret = NoVal],
                "link", ptd.made[i].name, ptd.made[i].number)

NextPort ==
    \/ \E port_ \in PortNames, number \in PortNumbers : Port(port_, number)
    \/ Dealloc
    \/ \E i \in DOMAIN ptd.made : LinkPort(i)

SpecPort == Init /\ [][NextPort]_vars

(***************************************************************************)
(* Partitioned graphs: X and D are constructed and given their ranks, the  *)
(* user adds and links them and calls prune, follow_links or flatten.      *)
(***************************************************************************)
RankPartitions == {NoVal} \cup {Some(r) : r \in Ranks}

RankPorts == {<<"X", "a", None>>, <<"X", "b", None>>, <<"D", "a", None>>,
              <<"D", "b", None>>}

InitRank ==
    /\ devices = <<>>
    /\ links = <<>>
    /\ ports = {}
    /\ expanding = None
    /\ expand_new_links = NoVal
    /\ expand_new_devices = NoVal
    /\ debug = FALSE
    /\ plink = [p \in AllPorts |-> NoPort]
    /\ name = [d \in Devs |-> givenName(d)]
    /\ \E px, pd \in RankPartitions :
           partition = [d \in Devs |-> IF d = "X" THEN px
                                       ELSE IF d = "D" THEN pd ELSE NoVal]
    /\ subOwner = [d \in Devs |-> None]
    /\ subs = [d \in Devs |-> <<>>]
    /\ dev_ports = [d \in Devs |-> PortsOf(d)]
    /\ err = None
    /\ pc = "idle"
    /\ assemblies = {}
    /\ fl = NoVal
    /\ ncalls = 0
    /\ nops = 0
    /\ expanded = {}
    /\ pre = <<>>
    /\ bl = {}
    /\ last = NoVal
    /\ ptd = NewDevice

\* a call of the user that is one step, recorded in last
RankOp(g, op, rank, prune_) ==
    /\ UserStep
    /\ Commit(g)
    /\ UNCHANGED <<pc, assemblies, fl, ncalls, expanded, pre, bl, ptd>>
    /\ last' = Some([op |-> op, rank |-> rank, prune |-> prune_,
                     n |-> nops + 1])

Prune(rank) ==
    /\ UserStep
    /\ \E g \in {prune(G, rank)} : RankOp(g, "prune", rank, FALSE)

FollowLinks(rank, prune_, scr) ==
    /\ UserStep
    /\ \E g \in {follow_links(G, rank, prune_, scr)} :
          RankOp(g, "follow_links", rank, prune_)

FlattenRun(scr) ==
    /\ UserStep
    /\ \E g \in {flatten_run(G, FlattenAll, scr, Passes)} :
          RankOp(g, "flatten", 0, FALSE)

\* no follow_links or flatten call has been made: a behaviour of SpecRank
\* expands its graph once, as its final call
Unexpanded == \A i \in DOMAIN last : last[i].op = "prune"

NextRank ==
    \/ \E d \in TopDevs : Unexpanded /\ Add(d)
    \/ \E p0, p1 \in RankPorts, l \in Latencies :
          Unexpanded /\ p0 # p1 /\ Link(p0, p1, l)
    \/ \E rank \in Ranks : Unexpanded /\ Prune(rank)
    \/ \E rank \in Ranks, prune_ \in BOOLEAN, scr \in Programs :
          Unexpanded /\ FollowLinks(rank, prune_, scr)
    \/ \E scr \in Programs : Unexpanded /\ FlattenRun(scr)

SpecRank == InitRank /\ [][NextRank]_vars

(***************************************************************************)
(* A library device with a dotted name: the user has constructed D with    *)
(* the name "X.P", the name under which the expansion of X registers P.    *)
(***************************************************************************)
InitNamed ==
    /\ devices = <<>>
    /\ links = <<>>
    /\ ports = {}
    /\ expanding = None
    /\ expand_new_links = NoVal
    /\ expand_new_devices = NoVal
    /\ debug = FALSE
    /\ plink = [p \in AllPorts |-> NoPort]
    /\ name = [d \in Devs |-> IF d = "D" THEN <<"X", "P">> ELSE givenName(d)]
    /\ \E pd \in Ranks :
           partition = [d \in Devs |-> IF d = "X" THEN Some(0)
                                       ELSE IF d = "D" THEN Some(pd)
                                       ELSE NoVal]
    /\ subOwner = [d \in Devs |-> None]
    /\ subs = [d \in Devs |-> <<>>]
    /\ dev_ports = [d \in Devs |-> PortsOf(d)]
    /\ err = None
    /\ pc = "idle"
    /\ assemblies = {}
    /\ fl = NoVal
    /\ ncalls = 0
    /\ nops = 0
    /\ expanded = {}
    /\ pre = <<>>
    /\ bl = {}
    /\ last = NoVal
    /\ ptd = NewDevice

NextNamed ==
    \/ \E d \in TopDevs : Unexpanded /\ Add(d)
    \/ \E p0, p1 \in RankPorts, l \in Latencies :
          Unexpanded /\ p0 # p1 /\ Link(p0, p1, l)
    \/ \E rank \in Ranks, scr \in Programs :
          Unexpanded /\ FollowLinks(rank, FALSE, scr)
    \/ \E scr \in Programs : Unexpanded /\ FlattenRun(scr)

SpecNamed == InitNamed /\ [][NextNamed]_vars

(***************************************************************************)
(* Two assemblies at top level: the user constructs X, Y and D, adds and   *)
(* links them and calls flatten(), whose first pass selects X and Y.  The  *)
(* pass iterates over a set of Devices, so the order in which it expands   *)
(* them is any order.  The procedure of X constructs P and Q, that of Y    *)
(* constructs R.                                                           *)
(***************************************************************************)
PairDevs == {"X", "Y", "D"}

PairPorts == {<<"X", "a", None>>, <<"X", "b", None>>, <<"Y", "a", None>>,
              <<"D", "a", None>>, <<"D", "b", None>>}

PairCallsOf(x) ==
    CASE x = "X" ->
            {CallAdd("P"), CallLink("P", "a", "X", "a"),
             CallLink("P", "a", "X", "b"), CallLink("Q", "a", "X", "b")}
      [] x = "Y" -> {CallAdd("R"), CallLink("R", "a", "Y", "a")}
      [] OTHER -> {}

PairPrograms ==
    [X : SeqsUpTo(PairCallsOf("X"), MaxCalls),
     Y : SeqsUpTo(PairCallsOf("Y"), MaxCalls)]

\* the orders in which a loop over the set S can visit its elements
Orders(S) ==
    {o \in [1..Cardinality(S) -> S] : \A i, j \in DOMAIN o : o[i] = o[j] => i = j}

\* flatten whose first pass visits the assemblies it selected in order
flatten_ordered(g, f, scr, order) ==
    IF g.err # None \/ f.levels = Some(0) THEN g
    ELSE IF flatten_type_error(g, f) THEN raise(g, "TypeError")
    ELSE IF flatten_select(g, f) = {} THEN g
    ELSE Bind(expand_all(g, order, 1, scr),
              LAMBDA g1 :
                  IF g1.err # None \/ f.expand # NoVal THEN g1
                  ELSE flatten_run(g1, [f EXCEPT !.levels = next_levels(@)],
                                   scr, Passes - 1))

FlattenOrdered(scr, order) ==
    /\ UserStep
    /\ \E g \in {flatten_ordered(G, FlattenAll, scr, order)} :
          RankOp(g, "flatten", 0, FALSE)

NextPair ==
    \/ \E d \in PairDevs : Unexpanded /\ Add(d)
    \/ \E p0, p1 \in PairPorts, l \in Latencies :
          Unexpanded /\ p0 # p1 /\ Link(p0, p1, l)
    \/ Unexpanded /\ SetDebug
    \/ \E scr \in PairPrograms :
          \E order \in Orders(flatten_select(G, FlattenAll)) :
              Unexpanded /\ FlattenOrdered(scr, order)

SpecPair == Init /\ [][NextPair]_vars

Next ==
    \/ \E d \in TopDevs : Add(d)
    \/ \E p0, p1 \in TopPorts, l \in Latencies : p0 # p1 /\ Link(p0, p1, l)
    \/ \E d \in TopDevs, r \in Ranks : SetPartition(d, r)
    \/ SetDebug
    \/ \E f \in FlattenArgs : Flatten(f)
    \/ \E d \in Devs : ProcAdd(d)
    \/ \E p0, p1 \in AllPorts, l \in ProcLatencies :
          p0 # p1 /\ ProcLink(p0, p1, l)
    \/ ProcReturn

Spec == Init /\ [][Next]_vars

(***************************************************************************)
(* Properties                                                              *)
(***************************************************************************)
Endpoint(p) == \E k \in DOMAIN links : k[1] = p \/ k[2] = p

LinksOf(p) == {k \in DOMAIN links : k[1] = p \/ k[2] = p}

Registered(d) == name[d] \in DOMAIN devices /\ devices[name[d]] = d

PType(p) == portinfo(DevOf(p))[p[2]]

\* a link between a port of a device X.expand constructed and a port of the
\* library device of the user: only a splice makes one
SplicedLink(k) ==
    \/ DevOf(k[1]) \in Interior("X") /\ DevOf(k[2]) = "D"
    \/ DevOf(k[2]) \in Interior("X") /\ DevOf(k[1]) = "D"

\* C1: whenever no call is running, every DevicePort is an endpoint of at
\* most one entry of the link registry.
C1_AtMostOneLink ==
    pc = "idle" => \A p \in AllPorts : Cardinality(LinksOf(p)) <= 1

\* C2: whenever no call is running, the registry has an entry for {p, q}
\* iff p.link is q and q.link is p, and a port is in the ports set iff it
\* is an endpoint of a registry entry.
C2_RecordsAgree ==
    pc = "idle" =>
        /\ \A p, q \in AllPorts :
               (_orderedtuple(p, q) \in DOMAIN links)
                   <=> (plink[p] = q /\ plink[q] = p)
        /\ \A p \in AllPorts : (p \in ports) <=> Endpoint(p)

\* C3: whenever no call is running, every endpoint of every registered link
\* belongs to a Device that is the registry entry for its name.
C3_EndpointsRegistered ==
    pc = "idle" =>
        \A k \in DOMAIN links : Registered(DevOf(k[1])) /\ Registered(DevOf(k[2]))

\* every registered link joins two ports of equal type tag
TypesEqual == \A k \in DOMAIN links : PType(k[1]) = PType(k[2])

\* C4: every link in the registry joins two ports of equal type tag, in every
\* state, also inside an expansion and after a call has raised; and a link
\* call on two unlinked ports of different type tags raises PortTypeMismatch
\* and records nothing.
C4_TypesEqual ==
    /\ []TypesEqual
    /\ [][(pc = "idle" /\ expanding = None /\ nops' # nops) =>
             \A p0, p1 \in TopPorts \ ports :
                 PType(p0) # PType(p1) =>
                     \A l \in Latencies :
                         Link(p0, p1, l) =>
                             /\ err' = "PortTypeMismatch"
                             /\ UNCHANGED <<links, plink>>]_vars

\* C4 witness: a link call has been rejected for its type tags while the
\* registry holds a spliced link.
C4_Witness ==
    /\ err = "PortTypeMismatch"
    /\ \E k \in DOMAIN links : SplicedLink(k)

\* C5: outside expansion, link(p0, p1) with p0 or p1 already an endpoint of
\* a registered link raises PortAlreadyLinked and leaves devices, links,
\* ports and every port's link partner unchanged.
C5_LinkedPortRejected ==
    [][\A p0, p1 \in TopPorts, l \in Latencies :
          (/\ pc = "idle"
           /\ expanding = None
           /\ p0 # p1
           /\ Endpoint(p0) \/ Endpoint(p1)
           /\ Link(p0, p1, l))
          => /\ err' = "PortAlreadyLinked"
             /\ UNCHANGED <<devices, links, ports, plink>>]_vars

\* the step in which the expansion procedure of device returns
Returns(device) ==
    pc = "expand" /\ expanding = device /\ expanding' # device

\* the ports of the device being expanded that had a link to another
\* device's port when the expansion began
ExtPorts(device) ==
    {xp \in PortsOf(device) : pre[xp] # NoPort /\ DevOf(pre[xp]) # device}

\* the ports the procedure has called link with, together with xp
LinkedTo(xp) == {b[2] : b \in {c \in bl : c[1] = xp}}

\* the procedure has linked every externally linked port of the device to
\* exactly one port, a port of a device the procedure constructed
OneInteriorEach(device) ==
    \A xp \in ExtPorts(device) :
        /\ Cardinality(LinkedTo(xp)) = 1
        /\ \A r \in LinkedTo(xp) : DevOf(r) \in Interior(device)

\* C6: when the procedure of X has linked each externally linked port of X
\* to exactly one interior port and the expansion completes, every external
\* link (X.p, q) has become exactly one link (r, q), r the interior port
\* linked to X.p, with r.link = q and q.link = r, and X is not registered.
C6_ExternalLinksSpliced ==
    [][\A x \in Devs :
          (Returns(x) /\ err' = None /\ OneInteriorEach(x))
          => /\ \A xp \in ExtPorts(x) : \A r \in LinkedTo(xp) :
                   /\ _orderedtuple(r, pre[xp]) \in DOMAIN links'
                   /\ plink'[r] = pre[xp]
                   /\ plink'[pre[xp]] = r
                   /\ \A k \in DOMAIN links' :
                          (k[1] = pre[xp] \/ k[2] = pre[xp])
                              => k = _orderedtuple(r, pre[xp])
             /\ \A n \in DOMAIN devices' : devices'[n] # x]_vars

\* a registered assembly the filters of the flatten arguments f select:
\* the name filter is a dotted-path prefix of its name, its rank is the
\* rank filter
Eligible(d, f, names, parts) ==
    /\ library(d) = None
    /\ f.name # NoVal =>
           \E n \in 0..Len(names[d]) :
               SubSeq(names[d], 1, n) = Val(f.name)
    /\ f.rank # NoVal => parts[d] # NoVal /\ Val(parts[d]) = Val(f.rank)

\* C7: when flatten with levels unset and no candidate set returns, no
\* registered device is an assembly that its name or rank filter (if any)
\* selects; without a filter, no registered device is an assembly.
C7_NoAssemblyLeft ==
    [][(/\ pc = "expand"
        /\ pc' = "idle"
        /\ err' = None
        /\ Val(fl).levels = NoVal
        /\ Val(fl).expand = NoVal)
       => \A n \in DOMAIN devices' :
              ~Eligible(devices'[n], Val(fl), name', partition')]_vars

\* C7 witness: flatten has returned after expanding X and, one level down,
\* the assembly Y that X.expand registered; a library device is registered.
C7_Witness ==
    /\ pc = "idle"
    /\ err = None
    /\ {"X", "Y"} \subseteq expanded
    /\ \A n \in DOMAIN devices : library(devices[n]) # None
    /\ \E n \in DOMAIN devices : devices[n] = "R"

\* a registered link still has a port of device as an endpoint
DanglingLink(device) ==
    \E k \in DOMAIN links : DevOf(k[1]) = device \/ DevOf(k[2]) = device

Splices(r, xp, l) ==
    /\ ProcLink(r, xp, l) \/ ProcLink(xp, r, l)
    /\ err' = None

\* the ports of the device being expanded that are linked, and the ports of
\* the devices its procedure constructs
LinkedBoundary == {xp \in PortsOf(expanding) : plink[xp] # NoPort}

InteriorPorts == UNION {PortsOf(i) : i \in Interior(expanding)}

\* C9 as stated: the link (r, q) that replaces the external link (X.p, q)
\* of latency e, when the procedure links r to X.p with latency i, carries
\* e + i.
C9_LatencySummed ==
    [][(pc = "expand" /\ ncalls' # ncalls) =>
          \A xp \in LinkedBoundary, r \in InteriorPorts, l \in ProcLatencies :
              Splices(r, xp, l)
              => links'[_orderedtuple(r, plink[xp])]
                     = links[_orderedtuple(xp, plink[xp])] + l]_vars

\* C9 amended: the link (r, q) carries e, the latency of the external link;
\* the latency the procedure gave is dropped.
C9_LatencyOfExternalLink ==
    [][(pc = "expand" /\ ncalls' # ncalls) =>
          \A xp \in LinkedBoundary, r \in InteriorPorts, l \in ProcLatencies :
              Splices(r, xp, l)
              => links'[_orderedtuple(r, plink[xp])]
                     = links[_orderedtuple(xp, plink[xp])]]_vars

\* C9 witness: a spliced link of latency 0 and one of latency 1, both made
\* by link calls of latency 1.
C9_Witness ==
    /\ pc = "expand"
    /\ \E k \in DOMAIN links : SplicedLink(k) /\ links[k] = 0
    /\ \E k \in DOMAIN links : SplicedLink(k) /\ links[k] = 1

\* C10: add(device) succeeds exactly when no device is registered under the
\* name the device will carry (its name outside an expansion, the name
\* prefixed with X's while X is expanded), raises DuplicateName otherwise,
\* and a successful add leaves every existing registry entry as it was.
C10_AddIffNameFree ==
    [][\A d \in Devs :
          (\/ pc = "idle" /\ expanding = None /\ d \in TopDevs /\ Add(d)
           \/ ProcAdd(d))
          => /\ (err' = None) <=> (add_name(G, d) \notin DOMAIN devices)
             /\ err' \in {None, "DuplicateName"}
             /\ err' = None =>
                    \A n \in DOMAIN devices :
                        n \in DOMAIN devices' /\ devices'[n] = devices[n]]_vars

\* the devices a step registers
NewlyRegistered == {d \in Devs : d \notin Values(devices) /\ d \in Values(devices')}

C12_SubmoduleLinkRegisters ==
    [][(pc = "idle" /\ expanding = None /\ nops' # nops) =>
          \A p0, p1 \in SubPorts \ ports :
              (/\ DevOf(p0) # DevOf(p1)
               /\ subOwner[DevOf(p0)] # None
               /\ ~Registered(DevOf(p0))
               /\ ~Registered(TopOwner(G, DevOf(p0)))
               /\ Link(p0, p1, 0) \/ Link(p1, p0, 0))
              => /\ err' = None
                 /\ _orderedtuple(p0, p1) \in DOMAIN links'
                 /\ \A d \in {DevOf(p0), DevOf(p1), TopOwner(G, DevOf(p0))} :
                        name'[d] \in DOMAIN devices' /\ devices'[name'[d]] = d]_vars

\* C13: add(d) for a Device d that is registered raises nothing and leaves
\* the registry unchanged.
C13_ReAddIsNoOp ==
    [][(pc = "idle" /\ expanding = None /\ nops' # nops) =>
          \A d \in TopDevs :
              (Registered(d) /\ Add(d)) => err' = None /\ devices' = devices]_vars

\* C14: an add or link call that raises DuplicateName, PortTypeMismatch or
\* PortAlreadyLinked leaves the graph as it was: no device registered or
\* renamed, no links or ports entry added or removed.
C14_RaiseLeavesGraph ==
    [][(/\ pc = "idle"
        /\ nops' # nops
        /\ err' \in {"DuplicateName", "PortTypeMismatch", "PortAlreadyLinked"})
       => UNCHANGED <<devices, links, ports, plink, name, partition>>]_vars

\* the step is a call of op that returns
CallReturns(op) ==
    /\ last' # last
    /\ Val(last').op = op
    /\ err' = None

\* the state is the one a call of op left when it returned
Returned(op) ==
    /\ last # NoVal
    /\ Val(last).op = op
    /\ Val(last).n = nops
    /\ err = None

\* the device of an endpoint of the link is on the rank
OnRank(key, rank) ==
    \/ partition[DevOf(key[1])] = Some(rank)
    \/ partition[DevOf(key[2])] = Some(rank)

\* every registered device has a partition
FullyPartitioned == \A d \in Values(devices) : partition[d] # NoVal

\* C19: a call prune(rank) on a graph whose registered devices all have a
\* partition returns and leaves in the link registry exactly the links that
\* were registered before the call and have an endpoint device on rank,
\* each with the endpoints and the latency it had.
C19_PruneKeepsRankLinks ==
    [][(last' # last /\ Val(last').op = "prune" /\ FullyPartitioned) =>
          /\ err' = None
          /\ links' = [k \in {j \in DOMAIN links :
                                  OnRank(j, Val(last').rank)} |-> links[k]]]_vars

\* C19 witness: prune has returned after two links were made, one of them
\* from X to X, the other from D to D with latency 1; only one is left.
C19_Witness ==
    /\ Returned("prune")
    /\ nops = MaxOps
    /\ partition["X"] # partition["D"]
    /\ Cardinality(DOMAIN links) = 1
    /\ Cardinality(ports) = 2
    /\ \E k \in DOMAIN links : links[k] = 1

\* C20: a call prune(rank) that returns removes no device whose rank is
\* rank, whether a link ends at the device or not.
C20_PruneKeepsRankDevices ==
    [][CallReturns("prune") =>
          \A d \in Values(devices) :
              partition[d] = Some(Val(last').rank) => d \in Values(devices')]_vars

\* C18: when follow_links(rank) without pruning has returned, no registered
\* link with an endpoint device on rank has an assembly at either endpoint.
C18_NoAssemblyOnRankLinks ==
    (Returned("follow_links") /\ ~Val(last).prune) =>
        \A k \in DOMAIN links :
            OnRank(k, Val(last).rank) =>
                library(DevOf(k[1])) # None /\ library(DevOf(k[2])) # None

\* C18 witness: follow_links without pruning has returned; the link that
\* ended at X now joins X.P and D with an endpoint on the rank, and the
\* assembly X.Y, at which no link ends, is still registered.
C18_Witness ==
    /\ Returned("follow_links") /\ ~Val(last).prune
    /\ \E k \in DOMAIN links :
           /\ OnRank(k, Val(last).rank)
           /\ {DevOf(k[1]), DevOf(k[2])} = {"P", "D"}
    /\ Registered("Y") /\ name["Y"] = <<"X", "Y">>
    /\ ~Registered("X")

\* C15: when follow_links(rank, prune=True) has returned, no assembly is
\* registered, no link has an assembly at an endpoint, and every link has an
\* endpoint device on rank.
C15_PrunedFollowLeavesRank ==
    (Returned("follow_links") /\ Val(last).prune) =>
        /\ \A d \in Values(devices) : library(d) # None
        /\ \A k \in DOMAIN links :
               /\ library(DevOf(k[1])) # None
               /\ library(DevOf(k[2])) # None
               /\ OnRank(k, Val(last).rank)

\* C15 witness: follow_links(1, prune=True) has returned; X, on rank 0 and
\* linked to D on rank 1, was expanded, the link now joins X.P and D, and
\* the assembly X.Y that the procedure of X added is registered no more.
C15_Witness ==
    /\ Returned("follow_links") /\ Val(last).prune /\ Val(last).rank = 1
    /\ partition["P"] = Some(0) /\ partition["D"] = Some(1)
    /\ \E k \in DOMAIN links : {DevOf(k[1]), DevOf(k[2])} = {"P", "D"}
    /\ Registered("P") /\ Registered("D")
    /\ ~Registered("X") /\ ~Registered("Y")
    /\ name["Y"] = <<"X", "Y">>

\* a graph the user has built and not yet expanded, with a call to spare
InputGraph == pc = "idle" /\ err = None /\ Unexpanded /\ nops < MaxOps

\* the names under which the devices of a graph are registered
DeviceNames(g) == DOMAIN g.devices

\* an endpoint as device name, port name and index
EndOf(g, p) == <<g.name[DevOf(p)], p[2], p[3]>>

\* a link as its two endpoints and its latency
NamedLink(g, k) == <<{EndOf(g, k[1]), EndOf(g, k[2])}, g.links[k]>>

NamedLinks(g) == {NamedLink(g, k) : k \in DOMAIN g.links}

\* the links of a graph with an endpoint device on the rank
NamedRankLinks(g, rank) ==
    {NamedLink(g, k) : k \in {j \in DOMAIN g.links :
                              \/ g.partition[DevOf(j[1])] = Some(rank)
                              \/ g.partition[DevOf(j[2])] = Some(rank)}}

\* C16: for every rank r and every expansion procedure, when both
\* follow_links(r, prune=True) and flatten() return on the same graph, the
\* device names of the first result are device names of the second and the
\* links of the first (endpoint device name, port name, index, latency) are
\* links of the second.
C16_FollowWithinFlatten ==
    InputGraph =>
        \A r \in Ranks, scr \in Programs :
            \A a \in {follow_links(G, r, TRUE, scr)} :
                a.err = None =>
                    \A b \in {flatten_run(G, FlattenAll, scr, Passes)} :
                        b.err = None =>
                            /\ DeviceNames(a) \subseteq DeviceNames(b)
                            /\ NamedLinks(a) \subseteq NamedLinks(b)

\* C16 witness: a graph in which X on rank 0 is linked to D on rank 1 with
\* latency 1; with a procedure of X that links X.P to the port,
\* follow_links(1, prune=True) returns X.P, D and their link, and flatten
\* returns them too.
C16_Witness ==
    /\ InputGraph
    /\ partition["X"] = Some(0) /\ partition["D"] = Some(1)
    /\ \E scr \in Programs :
           \E a \in {follow_links(G, 1, TRUE, scr)},
              b \in {flatten_run(G, FlattenAll, scr, Passes)} :
               /\ a.err = None /\ b.err = None
               /\ <<"X", "P">> \in DeviceNames(a)
               /\ <<{<<<<"X", "P">>, "a", None>>, <<<<"D">>, "a", None>>}, 1>>
                      \in NamedLinks(a) \cap NamedLinks(b)

\* C17: for every rank r and every expansion procedure, when both
\* follow_links(r, prune=True) and flatten() return on the same graph, every
\* link of the flattened graph with an endpoint device on r is a link of the
\* graph follow_links leaves, with the same endpoints and latency.
C17_RankLinksOfFlattenInFollow ==
    InputGraph =>
        \A r \in Ranks, scr \in Programs :
            \A a \in {follow_links(G, r, TRUE, scr)} :
                a.err = None =>
                    \A b \in {flatten_run(G, FlattenAll, scr, Passes)} :
                        b.err = None =>
                            NamedRankLinks(b, r) \subseteq NamedLinks(a)

\* the step is a call of prune, or of follow_links with prune=True, that
\* returns
PruningReturns ==
    /\ last' # last
    /\ \/ Val(last').op = "prune"
       \/ Val(last').op = "follow_links" /\ Val(last').prune
    /\ err' = None

\* C21: when prune(rank) or follow_links(rank, prune=True) returns, a
\* submodule that was registered together with its owner before the call is
\* registered after it if and only if its owner is.
C21_OwnersWithSubmodules ==
    [][PruningReturns =>
          \A d \in Values(devices) :
              (subOwner[d] # None /\ subOwner[d] \in Values(devices)) =>
                  (d \in Values(devices') <=> subOwner[d] \in Values(devices'))]_vars

\* C22: after a call prune(rank) that returns, the two ports of every link
\* it removed have link None and are not in the ports set, every device it
\* removed has subOwner None, no subs and no ports, and no port of a removed
\* device is linked to a port of a device that is still registered.
C22_RemovedAreCleared ==
    [][(last' # last /\ Val(last').op = "prune" /\ err' = None) =>
          /\ \A k \in DOMAIN links \ DOMAIN links' :
                 /\ plink'[k[1]] = NoPort /\ plink'[k[2]] = NoPort
                 /\ k[1] \notin ports' /\ k[2] \notin ports'
          /\ \A d \in Values(devices) \ Values(devices') :
                 /\ subOwner'[d] = None
                 /\ subs'[d] = <<>>
                 /\ dev_ports'[d] = {}
                 /\ \A p \in PortsOf(d) :
                        plink'[p] # NoPort =>
                            DevOf(plink'[p]) \notin Values(devices')]_vars

\* C22 witness: prune has returned; it removed the link between O and its
\* submodule S, and the two devices.
C22_Witness ==
    /\ Returned("prune")
    /\ Val(last).links = {_orderedtuple(<<"O", "a", None>>, <<"S", "a", None>>)}
    /\ Val(last).devices = {"O", "S"}
    /\ Val(last).subOwner["S"] = "O"
    /\ links = <<>> /\ ports = {} /\ devices = <<>>
    /\ subOwner["S"] = None /\ subs["O"] = <<>>

\* a registered device has a required port name at which no link ends
RequiredUnlinked ==
    \E d \in Values(devices) :
        \E n \in DOMAIN portinfo(d) :
            /\ required(d, n)
            /\ ~\E k \in DOMAIN links :
                   \E i \in 1..2 : k[i][1] = d /\ k[i][2] = n

\* C24: verify_links raises MissingRequiredPort if and only if a registered
\* device has a required port name with no registered link at any port of
\* that name, and the call changes nothing in the graph.
C24_VerifyLinks ==
    [][(last' # last /\ Val(last').op = "verify_links") =>
          /\ err' = IF RequiredUnlinked THEN "MissingRequiredPort" ELSE None
          /\ UNCHANGED <<devices, links, ports, plink, name, partition,
                         subOwner, subs, dev_ports, expanding>>]_vars

\* C24 witness: verify_links has returned without raising on a graph in
\* which the required multi port m of O has a link at its number 1 and none
\* at its number 0, and the optional port b of D has none.
C24_Witness ==
    /\ Returned("verify_links")
    /\ Registered("O") /\ Registered("D")
    /\ plink[<<"O", "m", 1>>] # NoPort
    /\ plink[<<"O", "m", 0>>] = NoPort
    /\ plink[<<"D", "b", None>>] = NoPort

\* C24 witness of the raise: verify_links has raised on a graph in which O
\* is registered and linked at its port a alone.
C24_WitnessRaise ==
    /\ last # NoVal /\ Val(last).op = "verify_links" /\ Val(last).n = nops
    /\ err = "MissingRequiredPort"
    /\ Registered("O") /\ plink[<<"O", "a", None>>] # NoPort

\* C23: check_partition raises MissingPartition if and only if a registered
\* device has no partition; prune and follow_links raise it on such a graph
\* and leave devices, links and ports as they were.
C23_MissingPartition ==
    [][(/\ last' # last
        /\ Val(last').op \in {"check_partition", "prune", "follow_links"}) =>
          /\ (err' = "MissingPartition") <=> ~FullyPartitioned
          /\ ~FullyPartitioned => UNCHANGED <<devices, links, ports>>]_vars

\* C23 witness: follow_links with prune=True has raised MissingPartition on
\* a graph with a link between a device on its rank and a device without
\* partition; the link and the devices are still registered.
C23_Witness ==
    /\ last # NoVal /\ Val(last).op = "follow_links" /\ Val(last).prune
    /\ Val(last).n = nops
    /\ err = "MissingPartition"
    /\ \E k \in DOMAIN links :
           /\ partition[DevOf(k[1])] = Some(Val(last).rank)
           /\ partition[DevOf(k[2])] = NoVal
           /\ Registered(DevOf(k[1])) /\ Registered(DevOf(k[2]))
           /\ {k[1], k[2]} \subseteq ports

\* the DevicePorts ever made for a port name of the PortTestDevice
Issued(pname) == {i \in DOMAIN ptd.made : ptd.made[i].name = pname}

\* the step is the call port(pname, number) on the PortTestDevice
PortCalled(pname, number) ==
    /\ nops' = nops + 1
    /\ ptd'.call = Some([op |-> "port", port |-> pname, number |-> number])

\* C25: for a port name whose limit is L (1 for a single port, N for a
\* port bounded by N), no more than L distinct DevicePorts are ever made,
\* and a call port(name, number) that gives a number to a single port, or
\* a number of N or more to a port bounded by N, or that would assign N by
\* itself, raises.
C25_LimitsNeverExceeded ==
    /\ \A pname \in DOMAIN PtdLimit :
           PtdLimit[pname] # NoVal =>
               Cardinality(Issued(pname)) <= Val(PtdLimit[pname])
    /\ \A i \in DOMAIN ptd.made :
           /\ PtdLimit[ptd.made[i].name] = Some(1) =>
                  ptd.made[i].number = NoVal
           /\ (PtdLimit[ptd.made[i].name] \notin {NoVal, Some(1)}) =>
                  Val(ptd.made[i].number) < Val(PtdLimit[ptd.made[i].name])

\* the highest number among the DevicePorts in is, plus one; 0 for none
NextNumber(is) ==
    IF is = {} THEN 0
    ELSE 1 + CHOOSE n \in {Val(ptd.made[i].number) : i \in is} :
                 \A i \in is : Val(ptd.made[i].number) <= n

\* C26 as stated: port(name) without a number on a multi or bounded port
\* returns the DevicePort whose number is one more than the highest number
\* ever issued for the name (0 if none), a DevicePort never issued before,
\* and the counter of a name never decreases.
C26_NextUnusedEver ==
    [][/\ \A pname \in {"limit", "no_limit"} :
              (PortCalled(pname, NoVal) /\ ptd'.err = None) =>
                  /\ Val(ptd'.ret) \notin DOMAIN ptd.made
                  /\ ptd'.made[Val(ptd'.ret)].name = pname
                  /\ ptd'.made[Val(ptd'.ret)].number =
                         Some(NextNumber(Issued(pname)))
       /\ \A pname \in DOMAIN ptd.count :
              /\ pname \in DOMAIN ptd'.count
              /\ ptd'.count[pname] >= ptd.count[pname]]_vars

\* the DevicePorts of a port name that Device.ports holds
Held(pname) == {ptd.objs[k] : k \in {j \in DOMAIN ptd.objs : j[1] = pname}}

\* C26 amended: port(name) without a number on a multi or bounded port
\* returns a new DevicePort whose number is one more than the highest
\* number issued for the name since the device was last deallocated (0 if
\* none), and the counter of a name never decreases except that dealloc
\* clears it.
C26_NextUnusedSinceDealloc ==
    [][/\ \A pname \in {"limit", "no_limit"} :
              (PortCalled(pname, NoVal) /\ ptd'.err = None) =>
                  /\ Val(ptd'.ret) \notin DOMAIN ptd.made
                  /\ ptd'.made[Val(ptd'.ret)].name = pname
                  /\ ptd'.made[Val(ptd'.ret)].number =
                         Some(NextNumber(Held(pname)))
       /\ Val(ptd'.call).op # "dealloc" =>
              \A pname \in DOMAIN ptd.count :
                  /\ pname \in DOMAIN ptd'.count
                  /\ ptd'.count[pname] >= ptd.count[pname]]_vars

\* port("no_limit") has returned number 2 after only number 1 was asked
\* for by number
C26_Witness ==
    /\ ptd.call = Some([op |-> "port", port |-> "no_limit",
                        number |-> NoVal])
    /\ ptd.ret # NoVal
    /\ ptd.made[Val(ptd.ret)].number = Some(2)
    /\ {ptd.made[i].number : i \in Issued("no_limit")} = {Some(1), Some(2)}

\* C27 as stated: every call port(name) on a single port returns the one
\* DevicePort of that name, linked or not.
C27_SinglePortIdempotentEver ==
    [][PortCalled("default", NoVal) =>
           /\ ptd'.err = None
           /\ \A i \in DOMAIN ptd'.made :
                  (ptd'.made[i].name = "default"
                   /\ ptd'.made[i].number = NoVal) => i = Val(ptd'.ret)]_vars

\* C27 amended: a call port(name) on a single port returns the DevicePort
\* that Device.ports holds for the name, linked or not, and makes no new
\* one; when Device.ports holds none, as at first and after a dealloc, the
\* call makes one and Device.ports holds it from then on.
C27_SinglePortIdempotent ==
    [][PortCalled("default", NoVal) =>
           /\ ptd'.err = None
           /\ <<"default", NoVal>> \in DOMAIN ptd.objs =>
                  /\ ptd'.ret = Some(ptd.objs[<<"default", NoVal>>])
                  /\ ptd'.made = ptd.made
           /\ <<"default", NoVal>> \notin DOMAIN ptd.objs =>
                  /\ Val(ptd'.ret) \notin DOMAIN ptd.made
                  /\ ptd'.objs[<<"default", NoVal>>] = Val(ptd'.ret)]_vars

\* port("default") has returned the DevicePort it made first, now linked
C27_Witness ==
    /\ ptd.call = Some([op |-> "port", port |-> "default",
                        number |-> NoVal])
    /\ ptd.ret = Some(1)
    /\ Len(ptd.made) = 1
    /\ ptd.made[1].link
    /\ nops = 3

\* the ports a link call of the user, or of the running procedure, names
LinkInputs == IF pc = "expand" THEN ProcPorts(expanding) ELSE TopPorts

\* the same registry, link partners, ports set and registered devices, and
\* the same exception or none
SameGraph(a, b) ==
    /\ a.err = b.err
    /\ a.links = b.links
    /\ a.plink = b.plink
    /\ a.ports = b.ports
    /\ a.devices = b.devices

\* C28: link(a, b) and link(b, a) made in the same state give the
\* same graph, and link(b, a) made after a link(a, b) that returned raises
\* PortAlreadyLinked.
C28_LinkSymmetric ==
    \A p0 \in LinkInputs, p1 \in LinkInputs, latency \in Latencies :
        p0 # p1 =>
            /\ SameGraph(link(G, p0, p1, latency), link(G, p1, p0, latency))
            /\ link(G, p0, p1, latency).err = None =>
                   link(link(G, p0, p1, latency), p1, p0, latency).err
                       = "PortAlreadyLinked"

\* the step calls an expansion procedure
Begins == pc' = "expand" /\ expanding' # expanding

\* ... and it is the first the flatten call running then makes: a pass begins
PassBegins == Begins /\ (pc = "idle" \/ assemblies = {})

C30_FlattenSelects ==
    [][/\ PassBegins =>
              {expanding'} \cup assemblies' =
                  {d \in Values(devices') :
                      /\ Eligible(d, Val(fl'), name', partition')
                      /\ Val(fl').expand # NoVal =>
                             d \in Val(Val(fl').expand)}
       /\ pc = "expand" =>
              {d \in Values(devices) \ Values(devices') : library(d) = None}
                  \subseteq {expanding}]_vars

\* flatten(name=...) and flatten(rank=...)
FlattenName(n) ==
    [levels |-> NoVal, name |-> Some(n), rank |-> NoVal, expand |-> NoVal]

FlattenRank(r) ==
    [levels |-> NoVal, name |-> NoVal, rank |-> Some(r), expand |-> NoVal]

\* no call of the procedures sets a partition
NoSetPartition(scr) ==
    \A x \in DOMAIN scr :
        \A i \in DOMAIN scr[x] : scr[x][i].op # "set_partition"

\* X is registered, and is the only registered device on the rank
OnlyOnRank(r) ==
    /\ Registered("X")
    /\ \A d \in Values(devices) : partition[d] = Some(r) <=> d = "X"

ShortPrograms ==
    [X : SeqsUpTo(CallsOf("X"), 1), Y : SeqsUpTo(CallsOf("Y"), 1)]

\* C32: flatten(), or flatten with levels, a name or a rank, called on a
\* graph in which no registered device is an assembly that the filters
\* select, leaves devices, links, ports, link partners, names and
\* partitions as they are, whatever the expansion procedures would do.
C32_FlattenFixedPoint ==
    pc = "idle" =>
        \A f \in {h \in FlattenArgs : h.expand = NoVal} :
            (\A d \in Values(devices) : ~Eligible(d, f, name, partition)) =>
                \A scr \in ShortPrograms :
                \A a \in {flatten_run(G, f, scr, Passes)} :
                    /\ a.devices = devices
                    /\ a.links = links
                    /\ a.ports = ports
                    /\ a.plink = plink
                    /\ a.name = name
                    /\ a.partition = partition

\* C32 witness: flatten() has returned after expanding X and X.Y; X.P and
\* X.Y.R are registered and no assembly is, so a second flatten() finds a
\* flat graph.
C32_Witness ==
    /\ Returned("flatten")
    /\ Registered("P") /\ Registered("R")
    /\ name["R"] = <<"X", "Y", "R">>
    /\ \A d \in Values(devices) : library(d) # None
    /\ \E k \in DOMAIN links : DevOf(k[1]) = "P" \/ DevOf(k[2]) = "P"

\* C33: a call flatten() or follow_links(rank), with or without pruning,
\* ends: the loop of neither outruns the number of devices there are; and
\* when the call returns, no assembly is registered after flatten(), and no
\* link with an endpoint device on rank has an assembly at an endpoint
\* after follow_links(rank).
C33_ExpansionEnds ==
    (last # NoVal /\ Val(last).n = nops /\ Val(last).op # "prune") =>
        /\ err # "NoReturn"
        /\ (err = None /\ Val(last).op = "flatten") =>
               \A d \in Values(devices) : library(d) # None
        /\ (err = None /\ Val(last).op = "follow_links") =>
               \A k \in DOMAIN links :
                   OnRank(k, Val(last).rank) =>
                       /\ library(DevOf(k[1])) # None
                       /\ library(DevOf(k[2])) # None

\* C33 witness: follow_links without pruning has returned after two turns
\* of its loop: X was expanded, which put X.Y at the link to D, and then
\* X.Y, which registered X.Y.R.
C33_Witness ==
    /\ Returned("follow_links") /\ ~Val(last).prune
    /\ ~Registered("X") /\ ~Registered("Y")
    /\ Registered("R") /\ name["R"] = <<"X", "Y", "R">>
    /\ \E k \in DOMAIN links : {DevOf(k[1]), DevOf(k[2])} = {"R", "D"}

\* flatten step by step, an expansion procedure that is running returning
\* in the end: a procedure is a finite program
SpecLive == Init /\ [][Next]_vars /\ WF_vars(ProcReturn)

\* C33, for flatten taken step by step under SpecLive: a flatten call that
\* has begun an expansion ends.
C33_FlattenEnds == (pc = "expand") ~> (pc = "idle")

\* C34: a call of flatten() or of follow_links without pruning leaves
\* every library device that was registered before it registered under the
\* name it had, whether the call returns or raises.
C34_LibraryDevicesStay ==
    [][(last' # last /\ Val(last').op # "prune" /\ ~Val(last').prune) =>
           \A d \in Values(devices) :
               library(d) # None =>
                   /\ name'[d] = name[d]
                   /\ name[d] \in DOMAIN devices'
                   /\ devices'[name[d]] = d]_vars

\* the graph linked X.a to X.b before X was expanded, and the procedure of X
\* has made exactly two calls: link(r, X.a) and link(s, X.b)
RingSpliced(r, s) ==
    /\ pc = "expand"
    /\ expanding = "X"
    /\ pre = (<<"X", "a", None>> :> <<"X", "b", None>>)
                 @@ (<<"X", "b", None>> :> <<"X", "a", None>>)
    /\ ncalls = 2
    /\ bl = {<< <<"X", "a", None>>, r >>, << <<"X", "b", None>>, s >>}

\* one link joins r and s, they are each other's partner, and nothing of X
\* is left in the link registry or the port registry
RingClosed(r, s, ls, ps, pl) ==
    /\ {k \in DOMAIN ls : k[1] \in {r, s} \/ k[2] \in {r, s}}
           \in {{<<r, s>>}, {<<s, r>>}}
    /\ pl[r] = s
    /\ pl[s] = r
    /\ \A k \in DOMAIN ls : DevOf(k[1]) # "X" /\ DevOf(k[2]) # "X"
    /\ \A q \in ps : DevOf(q) # "X"

\* C35: when X.a is linked to X.b and the procedure of X links an interior
\* port r to X.a and an interior port s to X.b, the two splices leave
\* exactly one link r-s with r and s as each other's partner and no entry
\* that names a port of X, before and after the procedure returns, and X
\* is not registered once it has returned.
C35_RingSpliceCloses ==
    [][\A r, s \in InteriorPorts :
           (r # s /\ RingSpliced(r, s)) =>
               /\ RingClosed(r, s, links, ports, plink)
               /\ RingClosed(r, s, links', ports', plink')
               /\ (ncalls' = 0 /\ err' = None) => ~Registered("X")']_vars

C35_Witness ==
    /\ pc = "idle"
    /\ err = None
    /\ ~Registered("X")
    /\ Registered("Y")
    /\ Registered("P")
    /\ links = (<< <<"P", "a", None>>, <<"Y", "a", None>> >> :> 0)
    /\ plink[<<"P", "a", None>>] = <<"Y", "a", None>>
    /\ plink[<<"Y", "a", None>>] = <<"P", "a", None>>
    /\ ports = {<<"P", "a", None>>, <<"Y", "a", None>>}

\* the ports of the device being expanded that no registered link ends at
Unconnected == {p \in PortsOf(expanding) : LinksOf(p) = {}}

\* every call the running procedure has made so far linked an interior
\* port to an unconnected port of the device being expanded
OnlyUnconnected ==
    /\ pc = "expand"
    /\ ncalls > 0
    /\ Cardinality(bl) = ncalls
    /\ \A k \in bl : k[1] \in Unconnected /\ pre[k[1]] = NoPort
                       /\ k[2] \in InteriorPorts

\* C36: while a device is being expanded, linking an interior port r to one
\* of its ports that has no external link changes nothing (no link, no port
\* entry, no partner, no registered device, no exception), in either order
\* of the arguments; a procedure that made only such calls leaves its
\* interior devices unregistered, also after it has returned.
C36_UnconnectedBoundaryIgnored ==
    [][pc = "expand" =>
         /\ \A p \in Unconnected, r \in InteriorPorts, l \in ProcLatencies :
                /\ link(G, r, p, l) = G
                /\ link(G, p, r, l) = G
         /\ OnlyUnconnected =>
                \A d \in Interior(expanding) :
                    /\ d \notin Values(devices)
                    /\ (ncalls' = 0 /\ err' = None) =>
                           d \notin Values(devices')]_vars

C36_Witness ==
    /\ OnlyUnconnected
    /\ expanding = "X"
    /\ ncalls = 2
    /\ Values(devices) = {"X", "D"}
    /\ DOMAIN links = {<< <<"X", "a", None>>, <<"D", "a", None>> >>}
    /\ ports = {<<"X", "a", None>>, <<"D", "a", None>>}
    /\ \A r \in InteriorPorts : plink[r] = NoPort

\* the distinct numbers of the DevicePorts ever made for a port name
IssuedNumbers(pname) == {ptd.made[i].number : i \in Issued(pname)}

\* C37: on the port bounded by 2, port(name) without a number succeeds
\* whenever fewer than 2 distinct numbers have been issued for the name,
\* whichever numbers were asked for before.
C37_UnindexedWithinLimit ==
    [][(/\ PortCalled("limit", NoVal)
        /\ Cardinality(IssuedNumbers("limit")) < Val(PtdLimit["limit"])) =>
           ptd'.err = None]_vars

\* C39: whenever no flatten call is running (before a call, after it has
\* returned and after it has raised, also from inside an expansion
\* procedure), graph.expanding is None.
C39_ExpandingReset == pc = "idle" => expanding = None

\* every registered device has a partition
RegisteredTotal(devs, part) == \A d \in Values(devs) : part[d] # NoVal

\* every device at an endpoint of a registered link has a partition
LinkTotal(ls, part) ==
    \A k \in DOMAIN ls :
        part[DevOf(k[1])] # NoVal /\ part[DevOf(k[2])] # NoVal

\* C40: when every registered device has a partition as flatten begins,
\* every step of the call (the beginning of an expansion, each call of a
\* procedure, its return) leads to a state where every registered device
\* and every device at an endpoint of a registered link has a partition.
C40_PartitionTotal ==
    [][(\/ pc = "idle" /\ pc' = "expand"
              /\ RegisteredTotal(devices, partition)
        \/ pc = "expand" /\ RegisteredTotal(devices, partition)
              /\ LinkTotal(links, partition)) =>
           /\ RegisteredTotal(devices', partition')
           /\ LinkTotal(links', partition')]_vars

\* C40 for the calls made in one step: a flatten or follow_links call on a
\* graph whose registered devices all have a partition ends, by return or
\* by exception, with every registered device and every device at an
\* endpoint of a registered link partitioned.
C40_PartitionTotalCall ==
    [][(last' # last /\ Val(last').op # "prune"
            /\ RegisteredTotal(devices, partition)) =>
           /\ RegisteredTotal(devices', partition')
           /\ LinkTotal(links', partition')]_vars

\* the link partner of every linked port, both by name
NamedPartners(g) ==
    {<<EndOf(g, p), EndOf(g, g.plink[p])>> :
        p \in {q \in AllPorts : g.plink[q] # NoPort}}

\* C38: a flatten whose first pass selects X and Y gives the same graph
\* whichever of the two it expands first, for every pair of procedures and
\* also when X and Y are linked to each other: both orders raise or both
\* return, with the same device names, the same links with the same
\* latencies and the same link partners.
C38_OrderIndependent ==
    (InputGraph /\ {"X", "Y"} \subseteq Values(devices)) =>
        \A scr \in PairPrograms :
            \A a \in {flatten_ordered(G, FlattenAll, scr, <<"X", "Y">>)} :
                \A b \in {flatten_ordered(G, FlattenAll, scr, <<"Y", "X">>)} :
                    /\ (a.err = None) = (b.err = None)
                    /\ a.err = None =>
                           /\ DeviceNames(a) = DeviceNames(b)
                           /\ NamedLinks(a) = NamedLinks(b)
                           /\ NamedPartners(a) = NamedPartners(b)
====
